---- MODULE Spec2Model ----
(***************************************************************************)
(* Model of the resumable sampling engine of the offline benchmark         *)
(* (tools/offline-benchmark/scripts/monitor_sql_workload.py,               *)
(* SQLServerMonitor.monitor with collect_sample, save_checkpoint and       *)
(* load_checkpoint) and of the status reader that opens the checkpoint     *)
(* file (check_monitoring_status.py, analyze_checkpoint).                  *)
(*                                                                         *)
(* The second part models the synthetic load generator                     *)
(* (tools/offline-benchmark/scripts/Generate-SQLWorkload.py,               *)
(* WorkloadGenerator.generate and its worker threads).                     *)
(*                                                                         *)
(* Time is in seconds.  A file name is a sequence of tokens, a file is a   *)
(* record tagged with its kind, a JSON object is a record of its keys.     *)
(***************************************************************************)
EXTENDS Integers, Sequences, FiniteSets, TLC

\* ------------------------------------------------------------------ bounds
\* Largest --duration (minutes) the model runs.
MaxDurationMinutes == 2
\* Number of process invocations (the first run and its resumptions).
MaxRuns == 2
\* Wall-clock seconds of a collect_sample call that returns a sample, and
\* of one that fails after a wait longer than the shortest interval.
FastCollect == 1
SlowCollect == 65

\* Number of worker threads of the load generator in the runs that
\* interleave them, and largest --threads in the computation of the rates.
MaxThreads == 2
MaxRateThreads == 61
\* Number of queries the workers issue before the model stops them.
MaxIssues == 3
\* --interval (seconds) of tools/monitoring/monitor_sql_workload.py and
\* the number of intervals in its --duration.
WatchInterval == 2
WatchIntervals == 12
\* Largest --duration (minutes) of the load generator.
MaxWorkloadMinutes == 1
\* The checkpoint interval (minutes) and the number of samples of the runs
\* that the status reader watches between two checkpoints.
StaleCheckpointMinutes == 6
StaleSamples == 3

\* --------------------------------------------------------- program constants
SecondsPerMinute == 60
\* since_checkpoint > 300 is reported as stale by analyze_checkpoint.
StaleSeconds == 300
\* tools/monitoring: "if sample_count % 10 == 0"
SaveEvery == 10
\* generate: time.sleep(10) of the reporting loop
ReportSeconds == 10

\* --interval values (seconds) the model runs.
Intervals == {60, 90}
Durations == 1..MaxDurationMinutes
\* --checkpoint-interval values (minutes) the model runs; 0 is accepted by
\* argparse (type=int) and saves a checkpoint in every iteration.
CheckpointIntervals == {0, 1}
\* The calls of collect_sample the model runs: <<succeeds, seconds taken>>.
CollectOutcomes == { <<TRUE, FastCollect>>, <<FALSE, SlowCollect>> }

\* ------------------------------------------------------------- file names
\* --output values: one that has the ".json" suffix and one that has not.
OutputFiles == { <<"out", ".json">>, <<"out", ".txt">> }

\* str.replace(old, new), token by token.
Replace(s, old, new) == [k \in DOMAIN s |-> IF s[k] = old THEN new ELSE s[k]]

\* checkpoint_file = output_file.replace('.json', '_checkpoint.json')
CheckpointFile(out) == Replace(out, ".json", "_checkpoint.json")

Paths == OutputFiles \cup { CheckpointFile(o) : o \in OutputFiles }

\* ------------------------------------------------------------ conversions
\* datetime.isoformat() and datetime.fromisoformat()
IsoFormat(t) == <<"iso", t>>
FromIsoFormat(s) == s[2]

\* Files: no file, a file opened for writing and still empty, a file that
\* holds a part of a JSON text, and a file that holds a whole JSON object.
Absent == [kind |-> "absent"]
EmptyFile == [kind |-> "empty"]
PartialFile == [kind |-> "partial"]
\* json.dump(obj, f), once the file is closed
JsonDump(obj) == [kind |-> "json", obj |-> obj]
\* json.load(f) raises on anything that is not a whole JSON text
JsonLoads(file) == file.kind = "json"
JsonLoad(file) == file.obj

None == [kind |-> "none"]
Some(obj) == [kind |-> "some", obj |-> obj]

Max(a, b) == IF a >= b THEN a ELSE b

\* ------------------------------------------------------------------ state
VARIABLES
  \* command line of the run (main, argparse)
  duration_minutes, interval_seconds, checkpoint_interval_minutes,
  output_file, resume_from,
  \* environment: the files, the wall clock, the number of the process run
  fs, now, run,
  \* SQLServerMonitor object
  conn, samples_collected, errors_count,
  \* locals of monitor
  samples, start_sample, start_time, checkpoint, next_checkpoint, i, sample,
  \* position in monitor, call site of the running save_checkpoint, how
  \* monitor ended, what save_checkpoint logged last
  pc, save_from, outcome, save_log,
  \* what analyze_checkpoint printed last
  status,
  \* history of the run: start of the current iteration, number of
  \* collect_sample calls and of those that returned None
  iter_start, attempts, failures,
  \* history of the run and of its resumptions: the samples array of the
  \* last checkpoint that was written whole
  last_checkpoint

VARIABLES
  \* command line of the load generator (main, argparse)
  intensity, threads, workload_minutes,
  \* WorkloadGenerator object
  active, queries_executed, errors,
  \* locals of generate, its position, the index of the worker it joins,
  \* whether it was interrupted, the value it returned, its wall clock
  qpm_per_thread, last_queries, queries_delta, gpc, joining, interrupted,
  success, clock,
  \* each worker thread: its position, the value its "+= 1" has loaded,
  \* the class of the query it issued last
  wpc, loaded, query,
  \* history of the workers and of the reports: queries issued by each
  \* worker, whether it has slept since its last issue, queries that
  \* returned their rows, sum of the reported deltas
  issued, slept, completed, reported

VARIABLES
  \* command line of tools/monitoring/monitor_sql_workload.py (seconds)
  interval, duration,
  \* its wall clock, the content of its output file, its connection
  wtime, wfile, connection,
  \* locals of monitor_workload
  all_metrics, sample_count, iteration_start, elapsed, sleep_time,
  \* position in monitor_workload, how it ended, the sample count it
  \* printed when it ended
  mpc, ended, printed

watch == <<interval, duration, wtime, wfile, connection, all_metrics,
           sample_count, iteration_start, elapsed, sleep_time, mpc, ended,
           printed>>
workload == <<intensity, threads, workload_minutes, active, queries_executed,
              errors, qpm_per_thread, last_queries, queries_delta, gpc,
              joining, interrupted, success, clock, wpc, loaded, query,
              issued, slept, completed, reported>>
config == <<duration_minutes, interval_seconds, checkpoint_interval_minutes,
            output_file>>
locals == <<samples, start_sample, start_time, checkpoint, next_checkpoint, i,
            sample>>
history == <<iter_start, attempts, failures>>
monitor == <<config, resume_from, fs, now, run, conn, samples_collected,
             errors_count, locals, pc, save_from, outcome, save_log, status,
             history, last_checkpoint>>
vars == <<workload, watch, config, resume_from, fs, now, run, conn, samples_collected,
          errors_count, locals, pc, save_from, outcome, save_log, status,
          history, last_checkpoint>>

\* A rounding up of the division, in place of the floor.
TotalSamplesCeil(d, iv) == (d * SecondsPerMinute + iv - 1) \div iv

\* total_samples = (duration_minutes * 60) // interval_seconds
TotalSamples(d, iv) == (d * SecondsPerMinute) \div iv
total_samples == TotalSamples(duration_minutes, interval_seconds)
checkpoint_file == CheckpointFile(output_file)

\* timedelta(minutes=checkpoint_interval_minutes) after t
NextCheckpoint(t, minutes) == t + minutes * SecondsPerMinute

\* ---------------------------------------------------------- pure helpers
\* The sample built from the row of the metrics query (the payload is
\* opaque to the loop; its timestamp identifies it).
MakeSample(t) == [timestamp |-> IsoFormat(t)]

\* A failure that lowers the count instead of raising it.
ErrorsDecremented(e) == e - 1

\* An error counted in both except branches and once more by the caller.
ErrorsCountedTwice(e) == e + 2

\* self.errors_count += 1 on both except branches of collect_sample
ErrorsAfterFailure(e) == e + 1

\* A checkpoint whose samples_collected counts the failed attempts too.
CheckpointObjectCountsFailures(smp, st, errs, t) ==
  [ version |-> "2.1.0",
    start_time |-> IsoFormat(st),
    checkpoint_time |-> IsoFormat(t),
    samples_collected |-> Len(smp) + errs,
    errors_count |-> errs,
    samples |-> smp ]

\* A checkpoint that misses the sample of the current iteration.
CheckpointObjectStale(smp, st, errs, t) ==
  [ version |-> "2.1.0",
    start_time |-> IsoFormat(st),
    checkpoint_time |-> IsoFormat(t),
    samples_collected |-> Len(smp),
    errors_count |-> errs,
    samples |-> IF smp = <<>> THEN smp ELSE SubSeq(smp, 1, Len(smp) - 1) ]

\* the checkpoint dict of save_checkpoint
CheckpointObject(smp, st, errs, t) ==
  [ version |-> "2.1.0",
    start_time |-> IsoFormat(st),
    checkpoint_time |-> IsoFormat(t),
    samples_collected |-> Len(smp),
    errors_count |-> errs,
    samples |-> smp ]

\* the result dict of monitor
ResultObject(smp, st, errs, t, d, iv) ==
  [ metadata |-> [ version |-> "2.1.0",
                   start_time |-> IsoFormat(st),
                   end_time |-> IsoFormat(t),
                   duration_minutes |-> d,
                   interval_seconds |-> iv,
                   total_samples |-> Len(smp),
                   errors_count |-> errs ],
    samples |-> smp ]

\* load_checkpoint: the dict, or None when open, json.load or the
\* checkpoint['samples_collected'] of the log line raises
LoadCheckpoint(file) ==
  IF JsonLoads(file) /\ "samples_collected" \in DOMAIN JsonLoad(file)
  THEN Some(JsonLoad(file))
  ELSE None

\* checkpoint['samples'], checkpoint['samples_collected'] and
\* checkpoint['start_time'] raise KeyError when the key is missing
ResumeRaises(obj) ==
  \/ "samples" \notin DOMAIN obj
  \/ "start_time" \notin DOMAIN obj

\* A resumed loop that starts at index 0 again.
ResumeStartSampleZero(obj) == 0

\* A resume that takes the counters of the checkpoint but not its samples.
ResumeSamplesEmpty(obj) == <<>>

\* samples = checkpoint['samples']
ResumeSamples(obj) == obj.samples

\* start_sample = checkpoint['samples_collected']
ResumeStartSample(obj) == obj.samples_collected

\* A resume that starts the error count again at zero.
ResumeErrorsCountZero(obj) == 0

\* self.errors_count = checkpoint.get('errors_count', 0)
ResumeErrorsCount(obj) ==
  IF "errors_count" \in DOMAIN obj THEN obj.errors_count ELSE 0

\* A loop that runs one index past total_samples - 1.
HasNextIterationOffByOne(idx, total) == idx < total

\* if i < total_samples - 1: the loop goes on to the sleep and to the next
\* index of range(start_sample, total_samples)
HasNextIteration(idx, total) == idx < total - 1

\* time.sleep(interval_seconds)
SleepSeconds(iv, el) == iv

\* os.path.exists(path)
Exists(path) == fs[path].kind # "absent"

\* ---------------------------------------------------------- initial state
\* A sample of an earlier run, as found in a checkpoint left on disk.
OldSample == MakeSample(0)

\* What the path given to --resume-from can hold before the first run: no
\* file, a file cut short, objects that lack keys, and a checkpoint written
\* without the errors_count key.
ExternalFiles ==
  { Absent,
    PartialFile,
    JsonDump([version |-> "1.0"]),
    JsonDump([samples_collected |-> 1]),
    JsonDump([samples_collected |-> 1, samples |-> <<OldSample>>]),
    JsonDump([samples_collected |-> 1, samples |-> <<OldSample>>,
              start_time |-> IsoFormat(0), checkpoint_time |-> IsoFormat(0)]) }

\* The state in which main calls monitor: nothing connected, nothing
\* collected (SQLServerMonitor.__init__), the locals not yet assigned.
ProcessStart ==
  /\ conn = "none"
  /\ samples_collected = 0
  /\ errors_count = 0
  /\ samples = <<>>
  /\ start_sample = 0
  /\ start_time = 0
  /\ checkpoint = None
  /\ next_checkpoint = 0
  /\ i = 0
  /\ sample = None
  /\ pc = "start"
  /\ save_from = "none"
  /\ outcome = "running"
  /\ save_log = "none"
  /\ iter_start = 0
  /\ attempts = 0
  /\ failures = 0

\* WorkloadGenerator.__init__, and a generate that has not been called:
\* the state of the load generator in the runs of the monitor alone.
WorkloadNotStarted ==
  /\ intensity = "medium"
  /\ threads = 1
  /\ workload_minutes = 0
  /\ active = FALSE
  /\ queries_executed = 0
  /\ errors = 0
  /\ qpm_per_thread = 0
  /\ last_queries = 0
  /\ queries_delta = 0
  /\ gpc = "idle"
  /\ joining = 0
  /\ interrupted = FALSE
  /\ success = "none"
  /\ clock = 0
  /\ wpc = [w \in 1..threads |-> "idle"]
  /\ loaded = [w \in 1..threads |-> 0]
  /\ query = [w \in 1..threads |-> "none"]
  /\ issued = [w \in 1..threads |-> 0]
  /\ slept = [w \in 1..threads |-> FALSE]
  /\ completed = 0
  /\ reported = 0

\* monitor_workload of tools/monitoring has not been called.
WatchNotStarted ==
  /\ interval = WatchInterval
  /\ duration = WatchInterval
  /\ wtime = 0
  /\ wfile = Absent
  /\ connection = "none"
  /\ all_metrics = <<>>
  /\ sample_count = 0
  /\ iteration_start = 0
  /\ elapsed = 0
  /\ sleep_time = 0
  /\ mpc = "idle"
  /\ ended = "running"
  /\ printed = None

\* A first run without --resume-from and with the default kind of output
\* name, on a disk that holds none of its files: every checkpoint a later
\* run loads was written by the program.
Init ==
  /\ duration_minutes \in Durations
  /\ interval_seconds \in Intervals
  /\ checkpoint_interval_minutes \in CheckpointIntervals
  /\ output_file = <<"out", ".json">>
  /\ resume_from = <<>>
  /\ fs = [p \in Paths |-> Absent]
  /\ now = 0
  /\ run = 1
  /\ status = "none"
  /\ last_checkpoint = <<>>
  /\ ProcessStart
  /\ WorkloadNotStarted
  /\ WatchNotStarted

\* A monitor whose "except Exception" handler returns True.
MonitorReturnsTrueOnFailure(o) == o \in {"completed", "failed"}

\* The value monitor returns on each way out: True after the final output
\* and the checkpoint cleanup, False on the startup checks and in both
\* handlers.  (A run that raised returns nothing.)
MonitorReturns(o) == o = "completed"

\* A main that exits 0 whatever monitor returned.
ExitCodeAlwaysZero(o) == 0

\* main: sys.exit(0 if success else 1); an exception that leaves monitor
\* is not caught by main, and the interpreter exits with 1.
ExitCode(o) ==
  IF o = "raised" THEN 1
  ELSE IF MonitorReturns(o) THEN 0 ELSE 1

\* A variant of StartupNextPc that goes on after a failed permission check.
StartupNextPcIgnoresPermissions(how) ==
  IF how \in {"ok", "permissions"} THEN "init" ELSE "exited"

\* monitor, the four startup checks: each "return False" leaves monitor,
\* and only when all four pass does the run go on to create its state.
StartupNextPc(how) ==
  IF how = "ok" THEN "init" ELSE "exited"

\* ---------------------------------------------------------------- actions
\* monitor, up to the timeline print: load_query, connect,
\* check_permissions and test_query, each of which makes monitor return
\* False when it fails.  The two early returns after connect are outside
\* the try/finally, so the connection stays open.
Startup(how) ==
  /\ pc = "start"
  /\ pc' = StartupNextPc(how)
  /\ IF how = "ok"
     THEN /\ conn' = "open"
          /\ outcome' = outcome
     ELSE /\ conn' = IF how \in {"permissions", "test_query"}
                     THEN "open" ELSE conn
          /\ outcome' = "startup_failed"
  /\ UNCHANGED <<workload, watch, last_checkpoint,
                 config, resume_from, fs, now, run, samples_collected,
                 errors_count, locals, save_from, save_log, status, history>>

\* monitor, "Inicializar o resumir" up to the entry of the for loop.
Initialize ==
  /\ pc = "init"
  /\ LET try  == resume_from # <<>> /\ Exists(resume_from)
         cp   == IF try THEN LoadCheckpoint(fs[resume_from]) ELSE None
         obj  == cp.obj
         used == cp.kind = "some"
     IN
     /\ checkpoint' = cp
     /\ IF used /\ ResumeRaises(obj)
        THEN \* KeyError leaves monitor before the try statement
             /\ samples' = IF "samples" \in DOMAIN obj
                            THEN obj.samples ELSE <<>>
             /\ start_sample' = IF "samples" \in DOMAIN obj
                                 THEN ResumeStartSample(obj) ELSE 0
             /\ start_time' = now
             /\ pc' = "exited"
             /\ outcome' = "raised"
             /\ UNCHANGED <<samples_collected, errors_count,
                            next_checkpoint, i>>
        ELSE /\ samples' = IF used THEN ResumeSamples(obj) ELSE <<>>
             /\ start_sample' = IF used THEN ResumeStartSample(obj) ELSE 0
             /\ start_time' = IF used THEN FromIsoFormat(obj.start_time)
                                       ELSE now
             /\ samples_collected' = IF used THEN start_sample'
                                             ELSE samples_collected
             /\ errors_count' = IF used THEN ResumeErrorsCount(obj)
                                        ELSE errors_count
             /\ next_checkpoint' =
                  NextCheckpoint(now, checkpoint_interval_minutes)
             /\ i' = start_sample'
             /\ pc' = IF start_sample' < total_samples
                      THEN "collect" ELSE "final"
             /\ outcome' = outcome
  /\ UNCHANGED <<workload, watch, last_checkpoint,
                 config, resume_from, fs, now, run, conn, sample, save_from,
                 save_log, status, history>>

\* One call of collect_sample and the append of its result: the call takes
\* d seconds and returns the sample, or counts an error and returns None.
Collect(ok, d) ==
  /\ pc = "collect"
  /\ iter_start' = now
  /\ now' = now + d
  /\ attempts' = attempts + 1
  /\ IF ok
     THEN /\ sample' = Some(MakeSample(now))
          /\ samples_collected' = samples_collected + 1
          /\ samples' = Append(samples, MakeSample(now))
          /\ UNCHANGED <<errors_count, failures>>
     ELSE /\ sample' = None
          /\ errors_count' = ErrorsAfterFailure(errors_count)
          /\ failures' = failures + 1
          /\ UNCHANGED <<samples_collected, samples>>
  /\ pc' = "checkpoint"
  /\ UNCHANGED <<workload, watch, last_checkpoint,
                 config, resume_from, fs, run, conn, start_sample,
                 start_time, checkpoint, next_checkpoint, i, save_from,
                 outcome, save_log, status>>

\* A variant of AfterCheckpoint that leaves the loop after the checkpoint
\* block.
AfterCheckpointBreaks(idx) ==
  "final"

\* The position after the checkpoint block of iteration idx.
AfterCheckpoint(idx) ==
  IF HasNextIteration(idx, total_samples) THEN "sleep" ELSE "final"

\* if datetime.now() >= next_checkpoint
CheckpointCheck ==
  /\ pc = "checkpoint"
  /\ IF now >= next_checkpoint
     THEN pc' = "save" /\ save_from' = "loop"
     ELSE pc' = AfterCheckpoint(i) /\ save_from' = save_from
  /\ UNCHANGED <<workload, watch, last_checkpoint,
                 config, resume_from, fs, now, run, conn, samples_collected,
                 errors_count, locals, outcome, save_log, status, history>>

\* What follows the return of save_checkpoint at each of its call sites:
\* the loop moves the boundary and goes on, the two handlers return False
\* and the finally clause disconnects.
SaveReturns ==
  /\ IF save_from = "loop"
     THEN /\ next_checkpoint' =
               NextCheckpoint(now, checkpoint_interval_minutes)
          /\ pc' = AfterCheckpoint(i)
          /\ UNCHANGED <<outcome, conn>>
     ELSE /\ pc' = "exited"
          /\ outcome' = IF save_from = "interrupt"
                        THEN "interrupted" ELSE "failed"
          /\ conn' = "closed"
          /\ UNCHANGED next_checkpoint
  /\ save_from' = "none"

\* save_checkpoint, open(checkpoint_file, 'w'): the file is truncated, or
\* open raises and the except clause logs the failure.
SaveOpen(ok) ==
  /\ pc = "save"
  /\ IF ok
     THEN /\ fs' = [fs EXCEPT ![checkpoint_file] = EmptyFile]
          /\ pc' = "dump"
          /\ UNCHANGED <<save_from, save_log, next_checkpoint, outcome, conn>>
     ELSE /\ save_log' = "failed"
          /\ SaveReturns
          /\ UNCHANGED fs
  /\ UNCHANGED <<workload, watch, last_checkpoint,
                 config, resume_from, now, run, samples_collected,
                 errors_count, samples, start_sample, start_time, checkpoint,
                 i, sample, status, history>>

\* save_checkpoint, json.dump and the close of the file: the whole object
\* is in the file, or the write raises and leaves a part of it.
SaveDump(ok) ==
  /\ pc = "dump"
  /\ IF ok
     THEN /\ fs' = [fs EXCEPT ![checkpoint_file] =
                      JsonDump(CheckpointObject(samples, start_time,
                                                errors_count, now))]
          /\ save_log' = "saved"
          /\ last_checkpoint' = fs'[checkpoint_file].obj.samples
     ELSE /\ fs' = [fs EXCEPT ![checkpoint_file] = PartialFile]
          /\ save_log' = "failed"
          /\ last_checkpoint' = last_checkpoint
  /\ SaveReturns
  /\ UNCHANGED <<workload, watch,
                 config, resume_from, now, run, samples_collected,
                 errors_count, samples, start_sample, start_time, checkpoint,
                 i, sample, status, history>>

\* time.sleep(interval_seconds), then the next index of the range
Sleep ==
  /\ pc = "sleep"
  /\ now' = now + SleepSeconds(interval_seconds, now - iter_start)
  /\ i' = i + 1
  /\ pc' = "collect"
  /\ UNCHANGED <<workload, watch, last_checkpoint,
                 config, resume_from, fs, run, conn, samples_collected,
                 errors_count, samples, start_sample, start_time, checkpoint,
                 next_checkpoint, sample, save_from, outcome, save_log,
                 status, history>>

\* monitor, "Guardar resultado final": the result is written to
\* output_file, the checkpoint file is removed when it exists, monitor
\* returns True and the finally clause disconnects.  A failing open or
\* json.dump of the output raises into the except Exception handler.
Finalize(how) ==
  /\ pc = "final"
  /\ LET written == [fs EXCEPT ![output_file] =
                       JsonDump(ResultObject(samples, start_time,
                                             errors_count, now,
                                             duration_minutes,
                                             interval_seconds))]
     IN
     IF how = "ok"
     THEN /\ fs' = IF written[checkpoint_file].kind # "absent"
                   THEN [written EXCEPT ![checkpoint_file] = Absent]
                   ELSE written
          /\ pc' = "exited"
          /\ outcome' = "completed"
          /\ conn' = "closed"
          /\ UNCHANGED save_from
     ELSE /\ fs' = IF how = "dump"
                   THEN [fs EXCEPT ![output_file] = PartialFile]
                   ELSE fs
          /\ pc' = "save"
          /\ save_from' = "emergency"
          /\ UNCHANGED <<outcome, conn>>
  /\ UNCHANGED <<workload, watch, last_checkpoint,
                 config, resume_from, now, run, samples_collected,
                 errors_count, locals, save_log, status, history>>

\* except KeyboardInterrupt: Ctrl+C anywhere inside the try statement
\* (KeyboardInterrupt is no Exception, so collect_sample and
\* save_checkpoint let it through); the handler calls save_checkpoint.
Interrupt ==
  /\ pc \in {"collect", "checkpoint", "save", "dump", "sleep", "final"}
  /\ save_from \in {"none", "loop"}
  /\ pc' = "save"
  /\ save_from' = "interrupt"
  /\ UNCHANGED <<workload, watch, last_checkpoint,
                 config, resume_from, fs, now, run, conn, samples_collected,
                 errors_count, locals, outcome, save_log, status, history>>

\* except Exception: an exception of the loop body that collect_sample
\* and save_checkpoint do not catch themselves (a print or a log call that
\* raises); the handler calls save_checkpoint.
UnexpectedException ==
  /\ pc \in {"collect", "checkpoint"}
  /\ pc' = "save"
  /\ save_from' = "emergency"
  /\ UNCHANGED <<workload, watch, last_checkpoint,
                 config, resume_from, fs, now, run, conn, samples_collected,
                 errors_count, locals, outcome, save_log, status, history>>

\* After an interrupted or failed run the operator starts the program again
\* as its log says ("Resume with: --resume-from <checkpoint_file>"), with
\* the same duration, interval and output: a new process and a new
\* SQLServerMonitor object.
Restart ==
  /\ pc = "exited"
  /\ outcome \in {"interrupted", "failed"}
  /\ run < MaxRuns
  /\ run' = run + 1
  /\ resume_from' = checkpoint_file
  /\ conn' = "none"
  /\ samples_collected' = 0
  /\ errors_count' = 0
  /\ samples' = <<>>
  /\ start_sample' = 0
  /\ start_time' = 0
  /\ checkpoint' = None
  /\ next_checkpoint' = 0
  /\ i' = 0
  /\ sample' = None
  /\ pc' = "start"
  /\ save_from' = "none"
  /\ outcome' = "running"
  /\ save_log' = "none"
  /\ iter_start' = 0
  /\ attempts' = 0
  /\ failures' = 0
  /\ UNCHANGED <<workload, watch, last_checkpoint,
                 config, fs, now, status>>

\* analyze_checkpoint(checkpoint_file), run by another process at any time
AnalyzeCheckpoint(file, t) ==
  IF file.kind = "absent" THEN "not_found"
  ELSE IF ~JsonLoads(file) THEN "invalid_json"
  ELSE IF \/ "start_time" \notin DOMAIN JsonLoad(file)
          \/ "checkpoint_time" \notin DOMAIN JsonLoad(file) THEN "error"
  ELSE IF t - FromIsoFormat(JsonLoad(file).checkpoint_time) > StaleSeconds
       THEN "stale"
  ELSE "running"

ReadStatus ==
  /\ status' = AnalyzeCheckpoint(fs[checkpoint_file], now)
  /\ UNCHANGED <<workload, watch, last_checkpoint,
                 config, resume_from, fs, now, run, conn, samples_collected,
                 errors_count, locals, pc, save_from, outcome, save_log,
                 history>>

\* ------------------------------------------------------------ specification
Next ==
  \/ \E how \in {"ok", "query_file", "connect", "permissions", "test_query"} :
        Startup(how)
  \/ Initialize
  \/ \E c \in CollectOutcomes : Collect(c[1], c[2])
  \/ CheckpointCheck
  \/ \E ok \in BOOLEAN : SaveOpen(ok)
  \/ \E ok \in BOOLEAN : SaveDump(ok)
  \/ Sleep
  \/ \E how \in {"ok", "open", "dump"} : Finalize(how)
  \/ Interrupt
  \/ UnexpectedException
  \/ Restart

Spec == Init /\ [][Next]_vars

\* The inputs of one duration and interval: every output name, and a first
\* run with or without --resume-from <checkpoint file>, where the file is
\* one of ExternalFiles.
InitInputs ==
  /\ duration_minutes = MaxDurationMinutes
  /\ interval_seconds = 60
  /\ checkpoint_interval_minutes \in CheckpointIntervals
  /\ output_file \in OutputFiles
  /\ resume_from \in { <<>>, checkpoint_file }
  /\ \E ext \in ExternalFiles :
        /\ (resume_from = <<>>) => (ext = Absent)
        /\ fs = [p \in Paths |-> IF p = checkpoint_file THEN ext ELSE Absent]
  /\ now = 0
  /\ run = 1
  /\ status = "none"
  /\ last_checkpoint = <<>>
  /\ ProcessStart
  /\ WorkloadNotStarted
  /\ WatchNotStarted

SpecInputs == InitInputs /\ [][Next]_vars

\* The monitor of one command line together with the status reader.
InitStatus ==
  /\ Init
  /\ duration_minutes = MaxDurationMinutes
  /\ interval_seconds = 60
  /\ checkpoint_interval_minutes = 1

NextStatus == Next \/ ReadStatus

SpecStatus == InitStatus /\ [][NextStatus]_vars

\* The monitor with a checkpoint interval longer than the five minutes of
\* the status reader, as the default of 60 minutes is: one sample and one
\* checkpoint every StaleCheckpointMinutes, StaleSamples samples in all.
InitStale ==
  /\ duration_minutes = StaleSamples * StaleCheckpointMinutes
  /\ interval_seconds = StaleCheckpointMinutes * SecondsPerMinute
  /\ checkpoint_interval_minutes = StaleCheckpointMinutes
  /\ output_file = <<"out", ".json">>
  /\ resume_from = <<>>
  /\ fs = [p \in Paths |-> Absent]
  /\ now = 0
  /\ run = 1
  /\ status = "none"
  /\ last_checkpoint = <<>>
  /\ ProcessStart
  /\ WorkloadNotStarted
  /\ WatchNotStarted

SpecStale == InitStale /\ [][NextStatus]_vars

\* ------------------------------------------------------------------ claims
\* The run resumed from a loaded checkpoint, and the number of its samples.
Resumed == checkpoint.kind = "some"
Fresh == checkpoint.kind = "none"
ResumedSamples == Len(checkpoint.obj.samples)

\* C1: a run resumed from a checkpoint that holds k <= total_samples samples
\* restarts its loop index at k, makes no more than the remaining
\* total_samples - k iterations, makes exactly those when it completes, and
\* ends with exactly total_samples samples when all of them succeed.
C1_ResumeCorrectness ==
  (Resumed /\ ResumedSamples <= total_samples) =>
    /\ start_sample = ResumedSamples
    /\ (pc = "collect" => i = ResumedSamples + attempts)
    /\ attempts <= total_samples - ResumedSamples
    /\ (outcome = "completed" =>
         /\ attempts = total_samples - ResumedSamples
         /\ (failures = 0 => Len(samples) = total_samples))

C1_Witness ==
  /\ Resumed
  /\ ResumedSamples = 1
  /\ total_samples = 2
  /\ outcome = "completed"
  /\ failures = 0
  /\ Len(samples) = 2

\* C2: a failed collect_sample adds exactly one to errors_count and leaves
\* samples as it was; the iteration then goes on to its checkpoint block and
\* from there to the sleep whenever an index i+1 exists (the loop is left
\* for the final save only after the last index), and the collection that
\* follows a sleep is that of index i+1.
C2_FailureIsolation ==
  /\ [][(pc = "collect" /\ pc' = "checkpoint" /\ sample' = None) =>
          /\ errors_count' = errors_count + 1
          /\ samples' = samples
          /\ i' = i]_vars
  /\ [][(/\ sample = None
          /\ pc \in {"checkpoint", "save", "dump"}
          /\ save_from \in {"none", "loop"}
          /\ save_from' \in {"none", "loop"}) =>
          /\ pc' \in {"save", "dump", "sleep", "final"}
          /\ (pc' = "final" => i = total_samples - 1)
          /\ errors_count' = errors_count
          /\ i' = i]_vars
  /\ [][(pc = "sleep" /\ pc' = "collect") =>
          /\ i' = i + 1
          /\ i' < total_samples
          /\ errors_count' = errors_count]_vars

C2_Witness ==
  /\ pc = "collect"
  /\ sample = None
  /\ failures = 1
  /\ errors_count = 1
  /\ attempts = 1
  /\ i = 1
  /\ samples = <<>>

\* C3: whenever interval <= duration, total_samples is the floor of
\* duration / interval (both in seconds), and a fresh run that completes
\* without a failed collection has exactly total_samples samples and
\* errors_count = 0.
C3_FullRun ==
  (interval_seconds <= duration_minutes * SecondsPerMinute) =>
    /\ total_samples * interval_seconds <= duration_minutes * SecondsPerMinute
    /\ duration_minutes * SecondsPerMinute
         < (total_samples + 1) * interval_seconds
    /\ (Fresh /\ outcome = "completed" /\ failures = 0) =>
         (Len(samples) = total_samples /\ errors_count = 0)

C3_Witness ==
  /\ Fresh
  /\ run = 1
  /\ outcome = "completed"
  /\ failures = 0
  /\ total_samples = 2
  /\ Len(samples) = 2

\* C4: a fresh run never makes more than total_samples collection attempts,
\* and when it completes it has made exactly total_samples of them, with
\* errors_count the number of failed ones and
\* len(samples) + errors_count = total_samples.
C4_AttemptCount ==
  Fresh =>
    /\ attempts <= total_samples
    /\ errors_count = failures
    /\ (outcome = "completed" =>
         /\ attempts = total_samples
         /\ Len(samples) + errors_count = total_samples)

C4_Witness ==
  /\ Fresh
  /\ outcome = "completed"
  /\ total_samples = 2
  /\ Len(samples) = 1
  /\ errors_count = 1

\* The checkpoint file holds a whole checkpoint with exactly the samples of
\* the run and their number.
CheckpointHoldsSamples ==
  /\ fs[checkpoint_file].kind = "json"
  /\ "samples" \in DOMAIN fs[checkpoint_file].obj
  /\ "samples_collected" \in DOMAIN fs[checkpoint_file].obj
  /\ fs[checkpoint_file].obj.samples = samples
  /\ fs[checkpoint_file].obj.samples_collected = Len(samples)

C6_CompletionFiles ==
  (outcome = "completed") =>
    /\ fs[output_file].kind = "json"
    /\ fs[output_file].obj.samples = samples
    /\ fs[checkpoint_file].kind = "absent"

\* C7: a status reader that reads the checkpoint file while save_checkpoint
\* is between its open and the end of its write never finds a file that is
\* not a whole JSON text.
C7_AtomicCheckpointWrite ==
  [][(pc = "dump" /\ pc' = "dump") => status' # "invalid_json"]_vars

\* C8: the sleep after a non-final iteration is max(0, interval - elapsed),
\* elapsed being the time since the start of the iteration, so that two
\* consecutive iterations start max(interval, elapsed) apart.
C8_DriftCorrection ==
  [][(pc = "sleep" /\ pc' = "collect") =>
      /\ now' - now = Max(0, interval_seconds - (now - iter_start))
      /\ now' - iter_start = Max(interval_seconds, now - iter_start)]_vars

\* The state with which the loop starts, when nothing of it comes from a
\* checkpoint and when all of it does.
AllFresh ==
  /\ samples = <<>>
  /\ i = 0
  /\ start_time = now
  /\ errors_count = 0

AllFromCheckpoint ==
  /\ Resumed
  /\ {"samples", "samples_collected", "start_time", "errors_count"}
       \subseteq DOMAIN checkpoint.obj
  /\ samples = checkpoint.obj.samples
  /\ i = checkpoint.obj.samples_collected
  /\ start_time = FromIsoFormat(checkpoint.obj.start_time)
  /\ errors_count = checkpoint.obj.errors_count

\* C9: the loop starts either with samples, loop index, start_time and
\* errors_count all taken from the checkpoint or with none of them taken
\* from it.
C9_AllOrNothing ==
  (pc \in {"collect", "final"} /\ attempts = 0) =>
    (AllFresh \/ AllFromCheckpoint)

\* C10: when --resume-from names a file that is missing or that does not
\* hold a whole checkpoint, monitor goes on with a fresh state (no samples,
\* index 0, start_time = now) into the loop.
C10_FreshOnUnloadable ==
  (/\ resume_from # <<>>
   /\ pc \notin {"start", "init"}
   /\ outcome # "startup_failed"
   /\ attempts = 0
   /\ (~Resumed \/ ResumeRaises(checkpoint.obj))) =>
    /\ outcome # "raised"
    /\ samples = <<>>
    /\ start_sample = 0
    /\ (pc \in {"collect", "final"} => AllFresh)

\* ------------------------------------------------------------------ C11
\* C11: a run that resumes from a checkpoint written by save_checkpoint and
\* saves again before any new attempt writes a checkpoint with the same
\* samples and the same errors_count as the one it loaded; of all the
\* fields only checkpoint_time may differ.
C11_Idempotence ==
  (Resumed /\ attempts = 0 /\ pc = "exited" /\ save_log = "saved")
    => /\ fs[checkpoint_file].kind = "json"
       /\ LET old == checkpoint.obj
              new == fs[checkpoint_file].obj
          IN  /\ new.samples = old.samples
              /\ new.errors_count = old.errors_count
              /\ DOMAIN new = DOMAIN old
              /\ \A k \in DOMAIN new \ {"checkpoint_time"} : new[k] = old[k]

\* A resumed run interrupted before its first attempt, whose loaded
\* checkpoint held one sample and one error, and whose save succeeded at a
\* later time than the loaded checkpoint's.
C11_Witness ==
  /\ Resumed /\ attempts = 0 /\ pc = "exited" /\ save_log = "saved"
  /\ outcome = "interrupted"
  /\ Len(checkpoint.obj.samples) = 1
  /\ checkpoint.obj.errors_count = 1
  /\ fs[checkpoint_file].kind = "json"
  /\ fs[checkpoint_file].obj.checkpoint_time = IsoFormat(now)

\* ------------------------------------------------------------------ C12
\* C12: within one run of monitor, from the creation or the reconstruction
\* of its state onward, errors_count never decreases and neither does
\* len(samples) + errors_count.
C12_Monotonic ==
  [][ (run' = run)
        => /\ errors_count' >= errors_count
           /\ Len(samples') + errors_count' >= Len(samples) + errors_count
    ]_vars

\* A resumed run that took over one error from its checkpoint and has
\* counted a second one.
C12_Witness ==
  /\ Resumed
  /\ checkpoint.obj.errors_count = 1
  /\ errors_count = 2

\* ------------------------------------------------------------------ C13
\* C13: the number of collected samples never exceeds total_samples, in a
\* fresh run and in a run resumed from a checkpoint of a run with the same
\* duration and interval.
C13_Bounded ==
  Len(samples) <= total_samples

\* A resumed run that took one sample from its checkpoint and has filled
\* the target of two.
C13_Witness ==
  /\ Resumed
  /\ ResumedSamples = 1
  /\ total_samples = 2
  /\ Len(samples) = total_samples
  /\ attempts = 1

\* ------------------------------------------------------------------ C14
\* The return of a save_checkpoint call made by the loop.
LoopSaveReturns ==
  /\ pc \in {"save", "dump"}
  /\ save_from = "loop"
  /\ save_from' = "none"

\* C14: a save_checkpoint call of the loop that fails is logged and changes
\* neither samples nor errors_count; the loop goes on with the rest of the
\* iteration (the sleep, or the end of the loop after the last index), the
\* boundary is moved as after a successful save, and a later iteration
\* that finds the boundary reached calls save_checkpoint again.
C14_FailedSaveNonFatal ==
  /\ [][ (LoopSaveReturns /\ save_log' = "failed")
           => /\ samples' = samples
              /\ errors_count' = errors_count
              /\ samples_collected' = samples_collected
              /\ outcome' = "running"
              /\ pc' = IF i < total_samples - 1 THEN "sleep" ELSE "final"
              /\ next_checkpoint' =
                   now + checkpoint_interval_minutes * SecondsPerMinute
       ]_vars
  /\ [][ (/\ pc = "checkpoint" /\ save_log = "failed"
          /\ now >= next_checkpoint /\ pc' # "checkpoint"
          /\ save_from' \notin {"interrupt", "emergency"})
           => (pc' = "save" /\ save_from' = "loop")
       ]_vars

\* The second iteration calls save_checkpoint after the save of the first
\* iteration failed.
C14_Witness ==
  /\ save_log = "failed"
  /\ pc = "save" /\ save_from = "loop"
  /\ attempts = 2
  /\ outcome = "running"

\* ------------------------------------------------------------------ C15
\* C15: an unexpected exception inside the sampling loop leads to exactly
\* one save_checkpoint call with the samples collected so far; whether the
\* save succeeds or fails, monitor then returns False, the process exits
\* with a non-zero code, and the final output file is not written.
C15_EmergencySave ==
  /\ [][ (pc \in {"collect", "checkpoint"} /\ save_from' = "emergency")
           => /\ pc' = "save"
              /\ UNCHANGED <<fs, samples, errors_count>>
       ]_vars
  /\ [][ (save_from = "emergency")
           => /\ pc = "save" => pc' \in {"dump", "exited"}
              /\ pc = "dump" => pc' = "exited"
              /\ fs'[output_file] = fs[output_file]
              /\ samples' = samples
              /\ pc' = "exited"
                   => /\ outcome' = "failed"
                      /\ ~MonitorReturns(outcome')
                      /\ ExitCode(outcome') # 0
                      /\ save_log' \in {"saved", "failed"}
                      /\ save_log' = "saved"
                           => /\ fs'[checkpoint_file].kind = "json"
                              /\ fs'[checkpoint_file].obj.samples = samples
       ]_vars

\* A run of two iterations that failed in its second one: the emergency
\* checkpoint holds the one sample and there is no output file.
C15_Witness ==
  /\ outcome = "failed" /\ pc = "exited"
  /\ total_samples = 2 /\ attempts = 1
  /\ Len(samples) = 1
  /\ save_log = "saved"
  /\ CheckpointHoldsSamples
  /\ fs[output_file].kind = "absent"

\* ------------------------------------------------------------------ C16
\* C16: when one of the startup checks (query file, connection,
\* permissions, test query) fails, monitor returns before it creates any
\* run state: no sample is collected, errors_count stays 0, no checkpoint
\* is loaded, and neither the checkpoint file nor the output file is
\* created or modified.
C16_StartupFailure ==
  /\ [][ (pc = "start" /\ outcome' = "startup_failed")
           => /\ pc' = "exited"
              /\ fs' = fs
       ]_vars
  /\ [](outcome = "startup_failed"
          => /\ pc = "exited"
             /\ attempts = 0
             /\ samples = <<>>
             /\ samples_collected = 0
             /\ errors_count = 0
             /\ checkpoint = None)

\* The second process, started with --resume-from on an existing
\* checkpoint, fails its permission check.
C16_Witness ==
  /\ outcome = "startup_failed"
  /\ run = 2
  /\ resume_from = checkpoint_file
  /\ fs[checkpoint_file].kind = "json"
  /\ conn = "open"

\* ------------------------------------------------------------------ C17
\* Every index of range(start_sample, total_samples) has been attempted.
LoopExhausted ==
  /\ pc \in {"final", "exited"}
  /\ outcome \in {"running", "completed", "interrupted", "failed"}
  /\ attempts = total_samples - start_sample
  /\ save_from = "none"

\* The output file holds the result of this run.
OutputWritten ==
  /\ fs[output_file].kind = "json"
  /\ fs[output_file].obj.samples = samples

C18_BoundaryFromPrevious ==
  /\ [][ (/\ pc = "checkpoint" /\ pc' # "checkpoint"
          /\ now >= next_checkpoint
          /\ save_from' \notin {"interrupt", "emergency"})
           => (pc' = "save" /\ save_from' = "loop")
       ]_vars
  /\ [][ LoopSaveReturns
           => next_checkpoint' =
                next_checkpoint
                  + checkpoint_interval_minutes * SecondsPerMinute
       ]_vars

\* ------------------------------------------------------------------ C19
\* C19: the loop never sleeps after the iteration of index
\* total_samples - 1, whether that attempt succeeded or failed: once the
\* checkpoint block of that iteration is done the run is at the writing of
\* the final output, no time has passed, and the same holds for resumed
\* runs.
C19_NoSleepAfterLast ==
  /\ [](pc = "sleep" => i < total_samples - 1)
  /\ [][ (/\ i = total_samples - 1
          /\ pc \in {"checkpoint", "save", "dump"}
          /\ save_from \in {"none", "loop"}
          /\ save_from' = "none"
          /\ pc' \notin {"checkpoint", "dump"})
           => (pc' = "final" /\ now' = now)
       ]_vars
  /\ [][ (pc = "final" /\ save_from' = "none")
           => (pc' = "exited" /\ now' = now) ]_vars

\* A resumed run whose last attempt failed is at the final output, at the
\* time that attempt ended.
C19_Witness ==
  /\ Resumed
  /\ pc = "final"
  /\ i = total_samples - 1
  /\ attempts >= 1
  /\ sample = None
  /\ now = iter_start + SlowCollect

\* ------------------------------------------------------------------ C20
\* C20: after every save_checkpoint call that succeeds, the checkpoint
\* file holds exactly the checkpoint dict of the current state: all the
\* current samples, the current errors_count, samples_collected equal to
\* the length of the samples array, and nothing of the previous content.
C20_FullSnapshot ==
  [][ (pc = "dump" /\ save_from' = "none" /\ save_log' = "saved")
        => /\ fs'[checkpoint_file].kind = "json"
           /\ LET obj == fs'[checkpoint_file].obj
              IN  /\ obj.samples = samples
                  /\ obj.errors_count = errors_count
                  /\ obj.samples_collected = Len(obj.samples)
                  /\ obj.start_time = IsoFormat(start_time)
                  /\ obj.checkpoint_time = IsoFormat(now)
                  /\ DOMAIN obj = {"version", "start_time", "checkpoint_time",
                                   "samples_collected", "errors_count",
                                   "samples"}
    ]_vars

\* The second checkpoint of a run replaced the first one: it holds the
\* one sample and the one error of the two attempts.
C20_Witness ==
  /\ save_log = "saved"
  /\ attempts = 2
  /\ pc = "final"
  /\ checkpoint_interval_minutes = 0
  /\ fs[checkpoint_file].kind = "json"
  /\ fs[checkpoint_file].obj.samples = samples
  /\ Len(samples) = 1
  /\ fs[checkpoint_file].obj.errors_count = 1
  /\ fs[checkpoint_file].obj.checkpoint_time = IsoFormat(now)

\* ======================================================================
\* The load generator: WorkloadGenerator.generate and worker_thread.
\* ======================================================================
Intensities == {"light", "medium", "high"}
\* random.random(), in hundredths: the values around the two thresholds of
\* each mix.
RandomValues == {49, 50, 69, 70, 79, 80}

gen_config == <<intensity, threads, workload_minutes>>
controller == <<qpm_per_thread, last_queries, queries_delta, gpc, joining,
                interrupted, success, clock, reported>>

\* queries_per_minute_map.get(intensity, 60)
QueriesPerMinute(name) ==
  CASE name = "light" -> 60
    [] name = "medium" -> 120
    [] name = "high" -> 240
    [] OTHER -> 60

\* qpm_per_thread = qpm // threads
QpmPerThread(qpm, n) == qpm \div n

\* interval = 60.0 / queries_per_minute if queries_per_minute > 0 else 1.0,
\* in seconds, as the fraction num / den
Interval(queries_per_minute) ==
  IF queries_per_minute > 0
  THEN [num |-> 60, den |-> queries_per_minute]
  ELSE [num |-> 1, den |-> 1]

\* A medium mix that falls through to the branch of high.
QueryClassMediumAsHigh(name, rand) ==
  IF name = "light" THEN "light"
  ELSE IF rand < 50 THEN "heavy"
  ELSE IF rand < 80 THEN "medium"
  ELSE "light"

\* worker_thread, "Seleccionar query según intensidad": the class of the
\* query for one value of random.random()
QueryClass(name, rand) ==
  IF name = "light" THEN "light"
  ELSE IF name = "medium"
       THEN IF rand < 70 THEN "medium" ELSE "light"
       ELSE IF rand < 50 THEN "heavy"
            ELSE IF rand < 80 THEN "medium"
            ELSE "light"

\* end_time = start_time + timedelta(minutes=duration_minutes), with
\* start_time the origin of clock
end_time == workload_minutes * SecondsPerMinute

\* ------------------------------------------------ actions of generate
\* generate, "Configuración": qpm and qpm_per_thread
Configure ==
  /\ gpc = "config"
  /\ qpm_per_thread' = QpmPerThread(QueriesPerMinute(intensity), threads)
  /\ gpc' = "validate"
  /\ UNCHANGED <<monitor, watch, gen_config, active, queries_executed, errors,
                 last_queries, queries_delta, joining, interrupted, success,
                 clock, reported, wpc, loaded, query, issued, slept,
                 completed>>

\* generate, "Conectar para validar": return False when connect fails
Validate(ok) ==
  /\ gpc = "validate"
  /\ IF ok
     THEN gpc' = "start" /\ success' = success
     ELSE gpc' = "returned" /\ success' = "false"
  /\ UNCHANGED <<monitor, watch, gen_config, active, queries_executed, errors,
                 qpm_per_thread, last_queries, queries_delta, joining,
                 interrupted, clock, reported, wpc, loaded, query, issued,
                 slept, completed>>

\* generate, "Iniciar threads": self.active = True, one started thread for
\* each of range(threads), then start_time, end_time and last_queries = 0
StartWorkers ==
  /\ gpc = "start"
  /\ active' = TRUE
  /\ wpc' = [w \in 1..threads |-> "connect"]
  /\ last_queries' = 0
  /\ clock' = 0
  /\ gpc' = "report"
  /\ UNCHANGED <<monitor, watch, gen_config, queries_executed, errors,
                 qpm_per_thread, queries_delta, joining, interrupted,
                 success, reported, loaded, query, issued, slept, completed>>

\* while datetime.now() < end_time: time.sleep(10)
ReportSleep ==
  /\ gpc = "report"
  /\ clock < end_time
  /\ clock' = clock + ReportSeconds
  /\ gpc' = "delta"
  /\ UNCHANGED <<monitor, watch, gen_config, active, queries_executed, errors,
                 qpm_per_thread, last_queries, queries_delta, joining,
                 interrupted, success, reported, wpc, loaded, query, issued,
                 slept, completed>>

\* queries_delta = self.queries_executed - last_queries
ReportDelta ==
  /\ gpc = "delta"
  /\ queries_delta' = queries_executed - last_queries
  /\ reported' = reported + queries_delta'
  /\ gpc' = "last"
  /\ UNCHANGED <<monitor, watch, gen_config, active, queries_executed, errors,
                 qpm_per_thread, last_queries, joining, interrupted, success,
                 clock, wpc, loaded, query, issued, slept, completed>>

\* last_queries = self.queries_executed, a second read of the counter, and
\* the progress line
ReportLast ==
  /\ gpc = "last"
  /\ last_queries' = queries_executed
  /\ gpc' = "report"
  /\ UNCHANGED <<monitor, watch, gen_config, active, queries_executed, errors,
                 qpm_per_thread, queries_delta, joining, interrupted,
                 success, clock, reported, wpc, loaded, query, issued, slept,
                 completed>>

\* generate, "Finalizar": the loop ended, self.active = False
Finish ==
  /\ gpc = "report"
  /\ clock >= end_time
  /\ active' = FALSE
  /\ joining' = 1
  /\ gpc' = "join"
  /\ UNCHANGED <<monitor, watch, gen_config, queries_executed, errors,
                 qpm_per_thread, last_queries, queries_delta, interrupted,
                 success, clock, reported, wpc, loaded, query, issued, slept,
                 completed>>

\* except KeyboardInterrupt, anywhere in the reporting loop:
\* self.active = False
KeyboardInterrupt ==
  /\ gpc \in {"report", "delta", "last"}
  /\ active' = FALSE
  /\ interrupted' = TRUE
  /\ joining' = 1
  /\ gpc' = "join"
  /\ UNCHANGED <<monitor, watch, gen_config, queries_executed, errors,
                 qpm_per_thread, last_queries, queries_delta, success, clock,
                 reported, wpc, loaded, query, issued, slept, completed>>

\* A join that waits for its thread without a timeout.
JoinReturnsUnbounded(w, timed_out) ==
  wpc[w] = "done" /\ ~timed_out

\* t.join(timeout=...) returns when the thread has ended, or when the
\* timeout (10 s, 5 s after an interruption) has passed with the thread
\* still running
JoinReturns(w, timed_out) ==
  timed_out <=> wpc[w] # "done"

\* for t in workers: t.join(timeout=10), or timeout=5 after an interruption
Join(timed_out) ==
  /\ gpc = "join"
  /\ joining <= threads
  /\ JoinReturns(joining, timed_out)
  /\ joining' = joining + 1
  /\ UNCHANGED <<monitor, watch, gen_config, active, queries_executed, errors,
                 qpm_per_thread, last_queries, queries_delta, gpc,
                 interrupted, success, clock, reported, wpc, loaded, query,
                 issued, slept, completed>>

\* the way generate ends once the joins are done: return False in the
\* KeyboardInterrupt handler; otherwise the statistics are printed, where
\* "self.queries_executed / (duration_minutes * 60)" raises
\* ZeroDivisionError for a duration of 0 minutes, and then return True
GenerateResult(was_interrupted, minutes) ==
  IF was_interrupted THEN "false"
  ELSE IF minutes * SecondsPerMinute = 0 THEN "raised"
  ELSE "true"

\* return False after an interruption; the statistics and return True
Return ==
  /\ gpc = "join"
  /\ joining > threads
  /\ gpc' = "returned"
  /\ success' = GenerateResult(interrupted, workload_minutes)
  /\ UNCHANGED <<monitor, watch, gen_config, active, queries_executed, errors,
                 qpm_per_thread, last_queries, queries_delta, joining,
                 interrupted, clock, reported, wpc, loaded, query, issued,
                 slept, completed>>

\* ------------------------------------------- actions of worker_thread
\* Worker w is the thread started by the iteration w - 1 of
\* "for i in range(threads)".
\* conn = self.connect(); if not conn: return
WorkerConnect(w, ok) ==
  /\ w \in 1..threads
  /\ wpc[w] = "connect"
  /\ wpc' = [wpc EXCEPT ![w] = IF ok THEN "loop" ELSE "done"]
  /\ UNCHANGED <<monitor, watch, gen_config, controller, active, queries_executed,
                 errors, loaded, query, issued, slept, completed>>

\* Number of queries the workers 1..n have issued.
RECURSIVE TotalIssued(_)
TotalIssued(n) == IF n = 0 THEN 0 ELSE issued[n] + TotalIssued(n - 1)

\* A loop that goes on whatever the flag says.
WhileTrue == TRUE

\* the test of "while self.active:"
WhileActive == active

\* while self.active: the query is selected and cursor.execute(query) is
\* called; when the flag is false, cursor.close(), conn.close() and the
\* thread ends.
WorkerLoop(w, rand) ==
  /\ w \in 1..threads
  /\ wpc[w] = "loop"
  /\ IF WhileActive
     THEN /\ TotalIssued(threads) < MaxIssues
          /\ query' = [query EXCEPT ![w] = QueryClass(intensity, rand)]
          /\ issued' = [issued EXCEPT ![w] = @ + 1]
          /\ slept' = [slept EXCEPT ![w] = FALSE]
          /\ wpc' = [wpc EXCEPT ![w] = "execute"]
     ELSE /\ wpc' = [wpc EXCEPT ![w] = "done"]
          /\ UNCHANGED <<query, issued, slept>>
  /\ UNCHANGED <<monitor, watch, gen_config, controller, active, queries_executed,
                 errors, loaded, completed>>

\* Queries of the workers that share one connection: none returns while
\* another one is blocked.
QueryCanReturnShared(w) ==
  /\ wpc[w] = "execute"
  /\ \A o \in DOMAIN wpc : wpc[o] # "hung"

\* Each worker has the connection and the cursor it opened itself, so its
\* query returns whatever the others do.
QueryCanReturn(w) ==
  wpc[w] = "execute"

\* cursor.execute(query); cursor.fetchall(): the rows come back and
\* "self.queries_executed += 1" loads the counter, or an exception is
\* raised and "self.errors += 1" loads that counter, or the call never
\* returns.
WorkerExecute(w, how) ==
  /\ w \in 1..threads
  /\ QueryCanReturn(w)
  /\ CASE how = "ok" ->
            /\ loaded' = [loaded EXCEPT ![w] = queries_executed]
            /\ completed' = completed + 1
            /\ wpc' = [wpc EXCEPT ![w] = "store_queries"]
       [] how = "error" ->
            /\ loaded' = [loaded EXCEPT ![w] = errors]
            /\ completed' = completed
            /\ wpc' = [wpc EXCEPT ![w] = "store_errors"]
       [] OTHER ->
            /\ wpc' = [wpc EXCEPT ![w] = "hung"]
            /\ UNCHANGED <<loaded, completed>>
  /\ UNCHANGED <<monitor, watch, gen_config, controller, active, queries_executed,
                 errors, query, issued, slept>>

\* "self.queries_executed += 1" stores the loaded value plus one (the
\* loaded value is dead afterwards and is cleared)
WorkerStoreQueries(w) ==
  /\ w \in 1..threads
  /\ wpc[w] = "store_queries"
  /\ queries_executed' = loaded[w] + 1
  /\ loaded' = [loaded EXCEPT ![w] = 0]
  /\ wpc' = [wpc EXCEPT ![w] = "sleep"]
  /\ UNCHANGED <<monitor, watch, gen_config, controller, active, errors, query,
                 issued, slept, completed>>

\* time.sleep(interval), at the end of an iteration whose query returned
WorkerSleep(w) ==
  /\ w \in 1..threads
  /\ wpc[w] = "sleep"
  /\ slept' = [slept EXCEPT ![w] = TRUE]
  /\ wpc' = [wpc EXCEPT ![w] = "loop"]
  /\ UNCHANGED <<monitor, watch, gen_config, controller, active, queries_executed,
                 errors, loaded, query, issued, completed>>

\* except Exception: "self.errors += 1" stores the loaded value plus one,
\* and the loop goes back to its test
WorkerStoreErrors(w) ==
  /\ w \in 1..threads
  /\ wpc[w] = "store_errors"
  /\ errors' = loaded[w] + 1
  /\ loaded' = [loaded EXCEPT ![w] = 0]
  /\ wpc' = [wpc EXCEPT ![w] = "loop"]
  /\ UNCHANGED <<monitor, watch, gen_config, controller, active, queries_executed,
                 query, issued, slept, completed>>

\* One step of worker w.
Worker(w) ==
  \/ \E ok \in BOOLEAN : WorkerConnect(w, ok)
  \/ \E rand \in RandomValues : WorkerLoop(w, rand)
  \/ \E how \in {"ok", "error", "hang"} : WorkerExecute(w, how)
  \/ WorkerStoreQueries(w)
  \/ WorkerSleep(w)
  \/ WorkerStoreErrors(w)

\* One step of generate.
Controller ==
  \/ Configure
  \/ \E ok \in BOOLEAN : Validate(ok)
  \/ StartWorkers
  \/ ReportSleep
  \/ ReportDelta
  \/ ReportLast
  \/ Finish
  \/ KeyboardInterrupt
  \/ \E timed_out \in BOOLEAN : Join(timed_out)
  \/ Return

\* -------------------------------------------- specifications of generate
\* The monitor is not running.
MonitorNotStarted ==
  /\ duration_minutes = 1
  /\ interval_seconds = 60
  /\ checkpoint_interval_minutes = 1
  /\ output_file = <<"out", ".json">>
  /\ resume_from = <<>>
  /\ fs = [p \in Paths |-> Absent]
  /\ now = 0
  /\ run = 1
  /\ status = "none"
  /\ last_checkpoint = <<>>
  /\ ProcessStart

\* generate is called on a new WorkloadGenerator.
WorkloadStart ==
  /\ active = FALSE
  /\ queries_executed = 0
  /\ errors = 0
  /\ qpm_per_thread = 0
  /\ last_queries = 0
  /\ queries_delta = 0
  /\ gpc = "config"
  /\ joining = 0
  /\ interrupted = FALSE
  /\ success = "none"
  /\ clock = 0
  /\ wpc = [w \in 1..threads |-> "idle"]
  /\ loaded = [w \in 1..threads |-> 0]
  /\ query = [w \in 1..threads |-> "none"]
  /\ issued = [w \in 1..threads |-> 0]
  /\ slept = [w \in 1..threads |-> FALSE]
  /\ completed = 0
  /\ reported = 0

\* MaxThreads workers of intensity light, for every duration.
InitWorkload ==
  /\ MonitorNotStarted
  /\ WatchNotStarted
  /\ intensity = "light"
  /\ threads = MaxThreads
  /\ workload_minutes \in 0..MaxWorkloadMinutes
  /\ WorkloadStart

NextWorkload ==
  \/ Controller
  \/ \E w \in 1..MaxThreads : Worker(w)

SpecWorkload == InitWorkload /\ [][NextWorkload]_vars

\* The main thread and every worker thread are scheduled again and again,
\* the sleeps end, and a query that can return does return or is blocked
\* for good.
SpecWorkloadFair ==
  /\ SpecWorkload
  /\ WF_vars(Controller)
  /\ \A w \in 1..MaxThreads : WF_vars(Worker(w))

\* One worker, for every intensity.
InitQueries ==
  /\ MonitorNotStarted
  /\ WatchNotStarted
  /\ intensity \in Intensities
  /\ threads = 1
  /\ workload_minutes \in 0..MaxWorkloadMinutes
  /\ WorkloadStart

SpecQueries == InitQueries /\ [][NextWorkload]_vars

\* The configuration alone, for every intensity and number of threads.
InitRates ==
  /\ MonitorNotStarted
  /\ WatchNotStarted
  /\ intensity \in Intensities
  /\ threads \in 1..MaxRateThreads
  /\ workload_minutes = 0
  /\ WorkloadStart

NextRates == Configure

SpecRates == InitRates /\ [][NextRates]_vars

\* ------------------------------------------------------------------ C21
\* C21: the workers update queries_executed atomically: whenever no worker
\* is in the middle of its "+= 1", the counter equals the number of
\* queries that returned their rows, under every interleaving.
C21_NoLostIncrement ==
  (\A w \in DOMAIN wpc : wpc[w] # "store_queries")
    => queries_executed = completed

\* ------------------------------------------------------------------ C22
\* C22: the errors counter never decrements: every value of errors is
\* greater than or equal to every earlier one, under every interleaving.
C22_ErrorsNeverDecrease ==
  [][ errors' >= errors ]_vars

\* ------------------------------------------------------------------ C23
\* C23: between every two consecutive queries it issues, a worker sleeps
\* its interval.
C23_Pacing ==
  [][ \A w \in DOMAIN wpc :
        (issued'[w] = issued[w] + 1 /\ issued[w] >= 1) => slept[w]
    ]_vars

\* ------------------------------------------------------------------ C24
\* C24: for every intensity and every number of threads >= 1, the rate of
\* each worker is qpm / threads, so the sum of the rates the workers pace
\* themselves at (60 / interval queries per minute each) never exceeds
\* the qpm of the intensity and is within threads of it.
C24_RateSum ==
  gpc = "validate"
    => LET qpm == QueriesPerMinute(intensity)
           iv == Interval(qpm_per_thread)
       IN  /\ qpm \in {60, 120, 240}
           /\ qpm_per_thread = qpm \div threads
           /\ threads * 60 * iv.den <= qpm * iv.num
           /\ qpm * iv.num - threads * 60 * iv.den <= threads * iv.num

\* ------------------------------------------------------------------ C25
\* C25: once generate has set the flag to false, a worker that evaluates
\* the flag ends without issuing another query, a worker that has ended
\* stays ended, and every worker whose query returns ends eventually.
C25_Cancellation ==
  /\ [][ \A w \in DOMAIN wpc :
           /\ (~active /\ wpc[w] = "loop" /\ wpc'[w] # "loop")
                => (wpc'[w] = "done" /\ issued'[w] = issued[w])
           /\ (wpc[w] = "done") => (wpc'[w] = "done")
       ]_vars
  /\ (gpc = "join")
       ~> (\A w \in DOMAIN wpc : wpc[w] \in {"done", "hung"})

\* generate was interrupted, and both workers, which had issued queries,
\* have ended.
C25_Witness ==
  /\ gpc = "returned"
  /\ interrupted
  /\ ~active
  /\ \A w \in DOMAIN wpc : wpc[w] = "done" /\ issued[w] >= 1

\* ------------------------------------------------------------------ C26
\* C26: after it has set the flag to false generate joins each worker with
\* a timeout and always returns, also when a worker never comes back from
\* its query; that worker is left as it is, blocked in its query.
C26_BestEffortJoin ==
  /\ <>(gpc = "returned")
  /\ [][ \A w \in DOMAIN wpc : (wpc[w] = "hung") => (wpc'[w] = "hung") ]_vars
  /\ [][ (gpc = "join" /\ joining' # joining)
           => (joining' = joining + 1 /\ wpc' = wpc /\ gpc' = "join") ]_vars

\* generate has returned True while the first worker is blocked in its
\* query.
C26_Witness ==
  /\ gpc = "returned"
  /\ success = "true"
  /\ wpc[1] = "hung"
  /\ joining = threads + 1

\* ------------------------------------------------------------------ C27
\* C27: a worker's query can return whatever the state of the other
\* workers; while one worker is blocked for good in a query, each other
\* worker's query still returns and is counted, and the reporting loop of
\* generate goes on to the end of the duration (or to an interruption).
C27_NoMutualBlocking ==
  /\ [](\A w \in DOMAIN wpc :
          (wpc[w] = "execute") => ENABLED WorkerExecute(w, "ok"))
  /\ \A w \in 1..MaxThreads :
        ((\E o \in DOMAIN wpc : o # w /\ wpc[o] = "hung")
           /\ wpc[w] \in {"execute", "store_queries", "store_errors"})
          ~> (wpc[w] \in {"sleep", "loop", "done", "hung"})
  /\ ((\E o \in DOMAIN wpc : wpc[o] = "hung")
        /\ gpc \in {"report", "delta", "last"})
       ~> (gpc = "join" /\ (interrupted \/ clock >= end_time))

\* The first worker is blocked; the second one has had two queries
\* counted since, and the reporting loop is in its last iteration.
C27_Witness ==
  /\ wpc[1] = "hung"
  /\ issued[1] = 1
  /\ issued[2] = 2
  /\ queries_executed = 2
  /\ wpc[2] = "sleep"
  /\ gpc = "delta"
  /\ workload_minutes = 1
  /\ clock = end_time

\* ------------------------------------------------------------------ C28
\* C28: at the end of every report, the sum of the reported deltas equals
\* the value of queries_executed the report has read, under every
\* interleaving with the workers' increments.
C28_DeltasSum ==
  (gpc = "report") => (reported = last_queries)

\* ------------------------------------------------------------------ C29
\* C29: a worker of intensity light issues light queries only, a worker of
\* intensity medium issues medium or light queries and never a heavy one,
\* and a worker of intensity high issues heavy, medium or light queries.
C29_QueryMix ==
  \A w \in DOMAIN query :
    (query[w] # "none")
      => CASE intensity = "light" -> query[w] = "light"
           [] intensity = "medium" -> query[w] \in {"medium", "light"}
           [] OTHER -> query[w] \in {"heavy", "medium", "light"}

\* A worker of intensity medium whose first query was of one class is
\* executing its second one, which is of class light.
C29_Witness ==
  /\ intensity = "medium"
  /\ issued[1] = 2
  /\ wpc[1] = "execute"
  /\ query[1] = "light"

\* ------------------------------------------------------------------ C30
\* C30: when a run resumed from the checkpoint of an interrupted run
\* completes, len(samples) + errors_count equals total_samples, also when
\* attempts made before the checkpoint had failed.
C30_AttemptsAcrossResume ==
  (Resumed /\ outcome = "completed")
    => Len(samples) + errors_count = total_samples

\* ------------------------------------------------------------------ C31
\* C31: for every output file name the checkpoint path is different from
\* the output path, so that no write of save_checkpoint changes the output
\* file and the cleanup at completion leaves the output file on disk.
C31_DistinctPaths ==
  [][ /\ checkpoint_file # output_file
      /\ (pc \in {"save", "dump"} /\ pc' # "save")
           => fs'[output_file] = fs[output_file]
      /\ (outcome' = "completed") => (fs'[output_file].kind # "absent")
    ]_vars

\* ------------------------------------------------------------------ C32
\* C32: once connect has succeeded, the connection is closed on every path
\* by which monitor ends.
C32_AlwaysDisconnects ==
  (pc = "exited") => (conn # "open")

\* ------------------------------------------------------------------ C33
\* The sequence s is an initial part of the sequence t.
IsPrefix(s, t) ==
  /\ Len(s) <= Len(t)
  /\ SubSeq(t, 1, Len(s)) = s

\* C33: the samples of a run, its resumptions included, are append-only:
\* the samples array of a checkpoint that was written is an initial part
\* of the array of every checkpoint written later and of the final output.
C33_AppendOnly ==
  [][ /\ (fs'[checkpoint_file] # fs[checkpoint_file]
            /\ fs'[checkpoint_file].kind = "json")
           => IsPrefix(last_checkpoint, fs'[checkpoint_file].obj.samples)
      /\ (outcome # "completed" /\ outcome' = "completed")
           => IsPrefix(last_checkpoint, fs'[output_file].obj.samples)
    ]_vars

\* ------------------------------------------------------------------ C34
\* C34: an iteration collects, then tests the checkpoint boundary, then
\* sleeps; a checkpoint saved by the loop in an iteration whose collection
\* succeeded ends with the sample of that iteration, and after the save
\* the iteration goes on to its sleep (or the loop ends), so it saves at
\* most once.
C34_IterationOrder ==
  /\ [][ (pc = "collect" /\ pc' # "collect" /\ save_from' = "none")
           => pc' = "checkpoint" ]_vars
  /\ [][ (pc = "checkpoint" /\ pc' # "checkpoint"
            /\ save_from' \notin {"interrupt", "emergency"})
           => pc' \in {"save", "sleep", "final"} ]_vars
  /\ [][ (pc = "sleep" /\ pc' # "sleep" /\ save_from' = "none")
           => (pc' = "collect" /\ i' = i + 1) ]_vars
  /\ [][ (LoopSaveReturns /\ save_log' = "saved")
           => /\ pc' \in {"sleep", "final"}
              /\ i' = i
              /\ fs'[checkpoint_file].kind = "json"
              /\ (sample # None)
                   => LET saved == fs'[checkpoint_file].obj.samples
                      IN  /\ saved # <<>>
                          /\ saved[Len(saved)] = sample.obj
                          /\ saved = samples
       ]_vars

\* The first iteration has saved a checkpoint that ends with the sample
\* it collected, and is about to sleep.
C34_Witness ==
  /\ pc = "sleep"
  /\ i = 0
  /\ sample # None
  /\ save_log = "saved"
  /\ fs[checkpoint_file].kind = "json"
  /\ fs[checkpoint_file].obj.samples = <<sample.obj>>

\* ------------------------------------------------------------------ C35
\* The loop of the monitor is running, its last save_checkpoint succeeded
\* and the next one is not overdue.
CheckpointingOnSchedule ==
  /\ pc \in {"collect", "checkpoint", "sleep"}
  /\ outcome = "running"
  /\ save_log = "saved"
  /\ fs[checkpoint_file].kind = "json"
  /\ now <= next_checkpoint

\* C35: while the loop of the monitor is running and saves its checkpoints
\* at the configured interval, analyze_checkpoint on the checkpoint file
\* of the run reports that monitoring is running normally, not that the
\* checkpoint is stale.
C35_RunningNormally ==
  [][ (CheckpointingOnSchedule /\ ReadStatus) => status' = "running" ]_vars

\* ------------------------------------------------------------------ C36
\* No worker thread was ever started.
NeverStarted == \A w \in DOMAIN wpc : wpc[w] = "idle"

\* C36: generate returns False exactly when its validation connection
\* failed, in which case no worker was started and the flag was never set,
\* or when it was interrupted; otherwise it returns True, whatever became
\* of the workers.
C36_GenerateResult ==
  /\ (gpc = "returned")
       => /\ success \in {"true", "false"}
          /\ (success = "false") <=> (interrupted \/ NeverStarted)
          /\ NeverStarted => (~interrupted /\ queries_executed = 0)
  /\ NeverStarted => ~active

\* =====================================================================
\* tools/monitoring/monitor_sql_workload.py: monitor_workload
\* =====================================================================
\* Seconds a collect_metrics call takes: less than the interval, the
\* interval, more than the interval.
CollectSeconds == {1, WatchInterval, WatchInterval + 1}

\* collect_metrics: the snapshot, stamped when the call begins (its queries
\* return [] on their own errors; the payload is opaque to the loop).
CollectMetrics(t) == [timestamp |-> IsoFormat(t)]

\* A wait of the whole difference, negative after a slow collection.
SleepTimeUnclamped(iv, el) == iv - el

\* sleep_time = max(0, interval - elapsed)
SleepTime(iv, el) == Max(0, iv - el)

\* A save that is due one sample in SaveEvery + 1.
SaveDueLate(count) == count % (SaveEvery + 1) = 0

\* if sample_count % 10 == 0
SaveDue(count) == count % SaveEvery = 0

\* "Collected {sample_count} samples before interruption"
InterruptedCount(count, metrics) == count

\* monitor.connect(); sys.exit(1) when it fails
WatchConnect(ok) ==
  /\ mpc = "connect"
  /\ IF ok
     THEN /\ connection' = "open"
          /\ mpc' = "while"
          /\ ended' = ended
     ELSE /\ connection' = connection
          /\ mpc' = "done"
          /\ ended' = "exit_1"
  /\ UNCHANGED <<workload, monitor, interval, duration, wtime, wfile,
                 all_metrics, sample_count, iteration_start, elapsed,
                 sleep_time, printed>>

\* while (time.time() - start_time) < duration: sample_count += 1;
\* iteration_start = time.time()   (start_time is 0 on the clock wtime)
WatchTest ==
  /\ mpc = "while"
  /\ IF wtime < duration
     THEN /\ sample_count' = sample_count + 1
          /\ iteration_start' = wtime
          /\ mpc' = "collect"
     ELSE /\ mpc' = "final"
          /\ UNCHANGED <<sample_count, iteration_start>>
  /\ UNCHANGED <<workload, monitor, interval, duration, wtime, wfile,
                 connection, all_metrics, elapsed, sleep_time, ended,
                 printed>>

\* metrics = monitor.collect_metrics(); all_metrics.append(metrics)
WatchCollect(d) ==
  /\ mpc = "collect"
  /\ wtime' = wtime + d
  /\ all_metrics' = Append(all_metrics, CollectMetrics(wtime))
  /\ mpc' = "save"
  /\ UNCHANGED <<workload, monitor, interval, duration, wfile, connection,
                 sample_count, iteration_start, elapsed, sleep_time, ended,
                 printed>>

\* "Save intermediate results every 10 samples": open(output_file, 'w')
\* and json.dump(all_metrics, f); a failure of the write leaves a part of
\* the text and raises out of monitor_workload through "finally".
WatchSave(ok) ==
  /\ mpc = "save"
  /\ IF SaveDue(sample_count)
     THEN IF ok
          THEN /\ wfile' = JsonDump(all_metrics)
               /\ mpc' = "wait"
               /\ UNCHANGED <<ended, connection>>
          ELSE /\ wfile' = PartialFile
               /\ mpc' = "done"
               /\ ended' = "raised"
               /\ connection' = "closed"
     ELSE /\ ok
          /\ mpc' = "wait"
          /\ UNCHANGED <<wfile, ended, connection>>
  /\ UNCHANGED <<workload, monitor, interval, duration, wtime, all_metrics,
                 sample_count, iteration_start, elapsed, sleep_time,
                 printed>>

\* elapsed = time.time() - iteration_start;
\* sleep_time = max(0, interval - elapsed); time.sleep(sleep_time)
WatchWait ==
  /\ mpc = "wait"
  /\ elapsed' = wtime - iteration_start
  /\ sleep_time' = SleepTime(interval, elapsed')
  /\ wtime' = wtime + sleep_time'
  /\ mpc' = "while"
  /\ UNCHANGED <<workload, monitor, interval, duration, wfile, connection,
                 all_metrics, sample_count, iteration_start, ended, printed>>

\* "Final save", the summary and "Total samples: {sample_count}"; finally
\* monitor.close()
WatchFinal(ok) ==
  /\ mpc = "final"
  /\ mpc' = "done"
  /\ connection' = "closed"
  /\ IF ok
     THEN /\ wfile' = JsonDump(all_metrics)
          /\ printed' = Some(sample_count)
          /\ ended' = "completed"
     ELSE /\ wfile' = PartialFile
          /\ printed' = printed
          /\ ended' = "raised"
  /\ UNCHANGED <<workload, monitor, interval, duration, wtime, all_metrics,
                 sample_count, iteration_start, elapsed, sleep_time>>

\* except KeyboardInterrupt, raised anywhere in the try block: the count
\* is printed, the partial results are written; finally monitor.close()
WatchInterrupt(ok) ==
  /\ mpc \in {"while", "collect", "save", "wait", "final"}
  /\ mpc' = "done"
  /\ connection' = "closed"
  /\ printed' = Some(InterruptedCount(sample_count, all_metrics))
  /\ IF ok
     THEN /\ wfile' = JsonDump(all_metrics)
          /\ ended' = "interrupted"
     ELSE /\ wfile' = PartialFile
          /\ ended' = "raised"
  /\ UNCHANGED <<workload, monitor, interval, duration, wtime, all_metrics,
                 sample_count, iteration_start, elapsed, sleep_time>>

\* monitor_workload is called with an interval and a duration of
\* WatchIntervals intervals.
InitWatch ==
  /\ MonitorNotStarted
  /\ WorkloadNotStarted
  /\ interval = WatchInterval
  /\ duration = WatchIntervals * WatchInterval
  /\ wtime = 0
  /\ wfile = Absent
  /\ connection = "none"
  /\ all_metrics = <<>>
  /\ sample_count = 0
  /\ iteration_start = 0
  /\ elapsed = 0
  /\ sleep_time = 0
  /\ mpc = "connect"
  /\ ended = "running"
  /\ printed = None

NextWatch ==
  \/ \E ok \in BOOLEAN : WatchConnect(ok)
  \/ WatchTest
  \/ \E d \in CollectSeconds : WatchCollect(d)
  \/ \E ok \in BOOLEAN : WatchSave(ok)
  \/ WatchWait
  \/ \E ok \in BOOLEAN : WatchFinal(ok)
  \/ \E ok \in BOOLEAN : WatchInterrupt(ok)

SpecWatch == InitWatch /\ [][NextWatch]_vars

\* ------------------------------------------------------------------ C37
\* C37: the wait after a sample is never negative and the clock never
\* goes back; with its wait, an iteration lasts the interval or, when the
\* collection took longer, just the collection: the next iteration then
\* starts at once, and the iteration after a slow one is timed from its
\* own start, with one sample appended per iteration.
C37_SleepNeverNegative ==
  /\ [](sleep_time >= 0)
  /\ [][wtime' >= wtime]_vars
  /\ [][ (mpc = "wait" /\ mpc' = "while")
           => /\ wtime' - iteration_start = Max(interval, elapsed')
              /\ (elapsed' >= interval) => (wtime' = wtime)
              /\ (elapsed' < interval) => (wtime' = iteration_start + interval)
       ]_vars
  /\ [][ (mpc = "while" /\ mpc' = "collect" /\ sample_count >= 1)
           => /\ iteration_start' - iteration_start = Max(interval, elapsed)
              /\ Len(all_metrics) = sample_count
              /\ sample_count' = sample_count + 1 ]_vars

\* After a collection slower than the interval and a wait of zero
\* seconds, a later iteration has waited again.
C37_Witness ==
  /\ mpc = "while"
  /\ sample_count = 3
  /\ wtime = iteration_start + interval
  /\ sleep_time > 0
  /\ all_metrics[3].timestamp = IsoFormat(iteration_start)
  /\ FromIsoFormat(all_metrics[2].timestamp)
       - FromIsoFormat(all_metrics[1].timestamp) > interval
  /\ iteration_start = FromIsoFormat(all_metrics[2].timestamp) + interval

\* ------------------------------------------------------------------ C38
\* The number of samples in the output file (none before the first write).
Written == IF wfile.kind = "json" THEN Len(wfile.obj) ELSE 0

\* C38: at the end of every iteration of the loop fewer than SaveEvery
\* collected samples are missing from the output file, and every write
\* that succeeds holds all the samples collected so far.
C38_SavedEveryTen ==
  /\ []((mpc = "wait") => /\ Len(all_metrics) - Written < SaveEvery
                          /\ Len(all_metrics) - Written >= 0)
  /\ [][ (wfile' # wfile /\ wfile'.kind = "json")
           => wfile'.obj = all_metrics ]_vars
  /\ [][ (mpc = "save" /\ mpc' = "wait" /\ wfile' # wfile)
           => (Len(wfile'.obj) % SaveEvery = 0 /\ Len(wfile'.obj) > 0) ]_vars

\* The tenth iteration has written its ten samples and is at its end.
C38_Witness ==
  /\ mpc = "wait"
  /\ sample_count = SaveEvery
  /\ wfile.kind = "json"
  /\ Len(wfile.obj) = SaveEvery
  /\ wfile.obj = all_metrics

\* ------------------------------------------------------------------ C39
\* C39: when monitor_workload ends by completion or by an interruption,
\* the sample count it printed is the number of samples in the output
\* file.
C39_ReportedEqualsWritten ==
  (ended \in {"completed", "interrupted"})
    => (printed = Some(Written) /\ wfile.kind = "json")

====
